---- MODULE Spec2Model ----
(***************************************************************************)
(* A model of the TypeScript SDK generator of genezio (SdkGenerator), of   *)
(* the strings it builds and of the artifact list it returns.              *)
(*                                                                         *)
(* Strings are TLA+ strings; text is built with \o exactly where the code  *)
(* concatenates or the Mustache template interpolates.  An absent string   *)
(* property (undefined) is the empty string: every use the code makes of   *)
(* such a property (x.path && ..., x.path || ".") treats the two alike.    *)
(***************************************************************************)
EXTENDS Integers, Sequences, FiniteSets, TLC

VARIABLES
    sdkGeneratorInput,  \* the argument of the generateSdk call in progress
    pc,                 \* position of the call: "call", "loop", "remote", "done"
    classIdx,           \* index of classInfo in the for loop over classesInfo
    files,              \* generateSdkOutput.files
    rendered,           \* history: the view handed to Mustache.render for files[k]
    earlier,            \* history: input and result of one earlier, completed call,
                        \* and whether a call with another input returned since
    elem,               \* the Node handed to getParamType / getReturnType
    typeOp,             \* which of the two was applied to elem ("none" before)
    typeText,           \* the string it returned
    calls,              \* the generateSdk invocations in progress side by side, each
                        \* with its argument, its position and its generateSdkOutput
    yaml,               \* a YamlConfigurationIOController, its file and the clock
    db                  \* a run of getOrCreateDatabase and the requests it issued

vars ==
    <<sdkGeneratorInput, pc, classIdx, files, rendered, earlier, elem, typeOp, typeText,
      calls, yaml, db>>

-----------------------------------------------------------------------------
(* Bounds of the model.                                                    *)

MaxClasses == 2
MaxMethods == 2
MaxParams == 2
MaxDecls == 2
MaxDepth == 1
MaxTime == 5

-----------------------------------------------------------------------------
(* Strings and sequences.                                                  *)

RECURSIVE Join(_, _)
Join(strs, sep) ==
    IF Len(strs) = 0 THEN ""
    ELSE IF Len(strs) = 1 THEN strs[1]
    ELSE strs[1] \o sep \o Join(Tail(strs), sep)

RECURSIVE Concat(_)
Concat(strs) == IF Len(strs) = 0 THEN "" ELSE strs[1] \o Concat(Tail(strs))

CharAt(s, k) == IF k >= 1 /\ k <= Len(s) THEN SubSeq(s, k, k) ELSE ""

Includes(s, sub) ==
    \E k \in 0..(Len(s) - Len(sub)) : SubSeq(s, k + 1, k + Len(sub)) = sub

StartsWith(s, pre) == Len(s) >= Len(pre) /\ SubSeq(s, 1, Len(pre)) = pre

EndsWith(s, suf) == Len(s) >= Len(suf) /\ SubSeq(s, Len(s) - Len(suf) + 1, Len(s)) = suf

\* s.split(sep) for a one-character separator
RECURSIVE SplitFrom(_, _, _, _)
SplitFrom(s, sep, k, cur) ==
    IF k > Len(s) THEN <<cur>>
    ELSE IF CharAt(s, k) = sep THEN <<cur>> \o SplitFrom(s, sep, k + 1, "")
    ELSE SplitFrom(s, sep, k + 1, cur \o CharAt(s, k))

Split(s, sep) == SplitFrom(s, sep, 1, "")

UpperCaseLetters == "ABCDEFGHIJKLMNOPQRSTUVWXYZ"
LowerCaseLetters == "abcdefghijklmnopqrstuvwxyz"

toLowerCase(c) ==
    IF \E k \in 1..Len(UpperCaseLetters) : CharAt(UpperCaseLetters, k) = c
    THEN CharAt(LowerCaseLetters,
                CHOOSE k \in 1..Len(UpperCaseLetters) : CharAt(UpperCaseLetters, k) = c)
    ELSE c

\* index of the first element of s satisfying P, 0 when there is none
FirstIndex(s, P(_)) ==
    IF \E k \in 1..Len(s) : P(s[k])
    THEN CHOOSE k \in 1..Len(s) : P(s[k]) /\ \A j \in 1..(k - 1) : ~P(s[j])
    ELSE 0

\* index of the last element of s satisfying P, 0 when there is none
LastIndex(s, P(_)) ==
    IF \E k \in 1..Len(s) : P(s[k])
    THEN CHOOSE k \in 1..Len(s) : P(s[k]) /\ \A j \in (k + 1)..Len(s) : ~P(s[j])
    ELSE 0

\* the sequences over S of length lo..hi
SeqsOf(S, lo, hi) == UNION {[1..n -> S] : n \in lo..hi}

-----------------------------------------------------------------------------
(* path.relative(from, to) of node's path module, for relative paths       *)
(* without ".." segments: both are resolved against the working directory, *)
(* the common leading segments are dropped, one ".." is produced for each  *)
(* remaining segment of from, followed by the remaining segments of to.    *)

PathSegments(p) == SelectSeq(Split(p, "/"), LAMBDA seg : seg # "" /\ seg # ".")

RECURSIVE CommonPrefixLen(_, _)
CommonPrefixLen(a, b) ==
    IF Len(a) = 0 \/ Len(b) = 0 \/ a[1] # b[1] THEN 0
    ELSE 1 + CommonPrefixLen(Tail(a), Tail(b))

PathRelative(from, to) ==
    LET f == PathSegments(from)
        t == PathSegments(to)
        c == CommonPrefixLen(f, t)
        ups == [k \in 1..(Len(f) - c) |-> ".."]
    IN Join(ups \o SubSeq(t, c + 1, Len(t)), "/")

-----------------------------------------------------------------------------
(* AstNodeType and TriggerType values.                                     *)

jsonrpc == "jsonrpc"
http == "http"
cron == "cron"
TriggerType == {jsonrpc, http, cron}

TYPESCRIPT_RESERVED_WORDS ==
    {"abstract", "as", "asserts", "async", "await", "boolean", "break", "case",
     "catch", "class", "const", "constructor", "continue", "declare", "default",
     "delete", "do", "else", "enum", "export", "extends", "false", "finally",
     "for", "from", "function", "get", "if", "implements", "import", "in",
     "infer", "instanceof", "interface", "is", "keyof", "let", "module",
     "namespace", "never", "new", "null", "number", "object", "of", "package",
     "private", "protected", "public", "readonly", "require", "global",
     "return", "set", "static", "string", "super", "switch", "symbol", "this",
     "throw", "true", "try", "type", "typeof", "unique", "unknown", "var",
     "void", "while", "with", "yield"}

-----------------------------------------------------------------------------
(* Type nodes.  A Node is a record with a type tag; an absent node (a      *)
(* returnType that is undefined) is the record Absent.                     *)

Absent == [type |-> "undefined"]
Lit(t) == [type |-> t]
Custom(raw) == [type |-> "CustomNodeLiteral", rawValue |-> raw]
ArrayOf(n) == [type |-> "ArrayType", generic |-> n]
PromiseOf(n) == [type |-> "PromiseType", generic |-> n]
MapOf(k, v) == [type |-> "MapType", genericKey |-> k, genericValue |-> v]
UnionOf(ps) == [type |-> "UnionType", params |-> ps]
Property(n, o, t) == [name |-> n, optional |-> o, type |-> t]
TypeLiteralOf(props) == [type |-> "TypeLiteral", properties |-> props]
EnumRef(n) == [type |-> "Enum", name |-> n]

RECURSIVE getParamType(_)
getParamType(e) ==
    IF e.type = "CustomNodeLiteral" THEN e.rawValue
    ELSE IF e.type = "StringLiteral" THEN "string"
    ELSE IF e.type \in {"IntegerLiteral", "FloatLiteral", "DoubleLiteral"} THEN "number"
    ELSE IF e.type = "BooleanLiteral" THEN "boolean"
    ELSE IF e.type = "AnyLiteral" THEN "any"
    ELSE IF e.type = "ArrayType" THEN "Array<" \o getParamType(e.generic) \o ">"
    ELSE IF e.type = "PromiseType" THEN "Promise<" \o getParamType(e.generic) \o ">"
    ELSE IF e.type = "Enum" THEN e.name
    ELSE IF e.type = "TypeAlias" THEN e.name
    ELSE IF e.type = "UnionType"
         THEN Join([k \in 1..Len(e.params) |-> getParamType(e.params[k])], " | ")
    ELSE IF e.type = "TypeLiteral"
         THEN "{" \o Join([k \in 1..Len(e.properties) |->
                              e.properties[k].name
                              \o (IF e.properties[k].optional THEN "?" ELSE "")
                              \o ": " \o getParamType(e.properties[k].type)], ", ")
              \o "}"
    ELSE IF e.type = "DateType" THEN "Date"
    ELSE "any"

\* the mutation of getReturnType that wraps every mapped type
getReturnTypeAlwaysWraps(returnType) ==
    IF returnType.type = "undefined" \/ returnType.type = "VoidLiteral" THEN ""
    ELSE ": " \o "Promise<" \o getParamType(returnType) \o ">"

getReturnType(returnType) ==
    IF returnType.type = "undefined" \/ returnType.type = "VoidLiteral" THEN ""
    ELSE LET value == getParamType(returnType)
         IN ": " \o (IF returnType.type # "PromiseType"
                     THEN "Promise<" \o value \o ">"
                     ELSE value)

-----------------------------------------------------------------------------
(* The class configuration.  getMethodType is a method of the class        *)
(* configuration object; it answers the trigger configured for the method  *)
(* and falls back to the trigger of the class.                             *)

getMethodType(classConfiguration, methodName) ==
    LET k == FirstIndex(classConfiguration.methods, LAMBDA m : m.name = methodName)
    IN IF k # 0 THEN classConfiguration.methods[k].type ELSE classConfiguration.type

-----------------------------------------------------------------------------
(* generateSdk, the loop over classDefinition.methods.                     *)

\* the mutation of the method filter that lets every method through
QualifiesAlways(classConfiguration, methodDefinition) == TRUE

\* the negation of the condition that makes the loop `continue`
Qualifies(classConfiguration, methodDefinition) ==
    ~(getMethodType(classConfiguration, methodDefinition.name) # jsonrpc
      \/ classConfiguration.type # jsonrpc)

\* the mutation of the forwarded argument that forgets the suffix
sendParameterNameNoSuffix(e) == e.name

\* the name of an entry of methodView.sendParameters
sendParameterName(e) ==
    IF e.name \in TYPESCRIPT_RESERVED_WORDS THEN e.name \o "_" ELSE e.name

\* the mutation of the parameter text that never quotes the default value
parameterNameBareDefault(e) ==
    (IF e.name \in TYPESCRIPT_RESERVED_WORDS THEN e.name \o "_" ELSE e.name)
    \o (IF e.optional THEN "?" ELSE "")
    \o ": " \o getParamType(e.paramType)
    \o (IF e.hasDefaultValue THEN " = " \o e.defaultValue.value ELSE "")

\* the name of an entry of methodView.parameters
parameterName(e) ==
    (IF e.name \in TYPESCRIPT_RESERVED_WORDS THEN e.name \o "_" ELSE e.name)
    \o (IF e.optional THEN "?" ELSE "")
    \o ": " \o getParamType(e.paramType)
    \o (IF e.hasDefaultValue
        THEN " = " \o (IF e.defaultValue.type = "StringLiteral"
                       THEN "'" \o e.defaultValue.value \o "'"
                       ELSE e.defaultValue.value)
        ELSE "")

\* the mutation of methodCaller that omits the class name
methodCallerNoClass(className, methodDefinition) ==
    IF Len(methodDefinition.params) = 0
    THEN "\"" \o methodDefinition.name \o "\""
    ELSE "\"" \o methodDefinition.name \o "\", "

methodCaller(className, methodDefinition) ==
    IF Len(methodDefinition.params) = 0
    THEN "\"" \o className \o "." \o methodDefinition.name \o "\""
    ELSE "\"" \o className \o "." \o methodDefinition.name \o "\", "

\* parameters / sendParameters: every entry last: false, then the final one true
MarkLast(items) ==
    [k \in 1..Len(items) |-> [items[k] EXCEPT !.last = (k = Len(items))]]

MethodView(classDefinition, methodDefinition) ==
    [name |-> methodDefinition.name,
     parameters |->
        MarkLast([k \in 1..Len(methodDefinition.params) |->
                    [name |-> parameterName(methodDefinition.params[k]), last |-> FALSE]]),
     returnType |-> getReturnType(methodDefinition.returnType),
     methodCaller |-> methodCaller(classDefinition.name, methodDefinition),
     sendParameters |->
        MarkLast([k \in 1..Len(methodDefinition.params) |->
                    [name |-> sendParameterName(methodDefinition.params[k]), last |-> FALSE]])]

\* view.methods after the loop
MethodViews(classConfiguration, classDefinition) ==
    LET qualifying == SelectSeq(classDefinition.methods,
                                LAMBDA m : Qualifies(classConfiguration, m))
    IN [k \in 1..Len(qualifying) |-> MethodView(classDefinition, qualifying[k])]

\* exportClassChecker after the loop
exportClassChecker(classConfiguration, classDefinition) ==
    \E k \in 1..Len(classDefinition.methods) :
        Qualifies(classConfiguration, classDefinition.methods[k])

-----------------------------------------------------------------------------
(* Top-level type declarations (the externalTypes of a Program body).      *)

RECURSIVE isExternalTypeUsed(_, _)
isExternalTypeUsed(externalType, type) ==
    IF type.type = "TypeAlias"
        THEN isExternalTypeUsed(externalType, type.aliasType)
    ELSE IF type.type = "Enum" THEN FALSE
    ELSE IF type.type = "StructLiteral"
        THEN isExternalTypeUsed(externalType, type.typeLiteral)
    ELSE IF type.type = "ArrayType" THEN isExternalTypeUsed(externalType, type.generic)
    ELSE IF type.type = "PromiseType" THEN isExternalTypeUsed(externalType, type.generic)
    ELSE IF type.type = "UnionType"
        THEN \E k \in 1..Len(type.params) : isExternalTypeUsed(externalType, type.params[k])
    ELSE IF type.type = "TypeLiteral"
        THEN \E k \in 1..Len(type.properties) :
                isExternalTypeUsed(externalType, type.properties[k].type)
    ELSE IF type.type = "CustomNodeLiteral" THEN type.rawValue = externalType.name
    ELSE FALSE

\* the text of one enum case; a case the callback returns nothing for is
\* joined as the empty string
EnumCaseText(c) ==
    IF c.type = "StringLiteral" THEN c.name \o " = \"" \o c.value \o "\""
    ELSE IF c.type = "DoubleLiteral"
        THEN (IF c.hasValue THEN c.name \o " = " \o c.value ELSE c.name)
    ELSE ""

generateExternalType(type) ==
    IF type.type = "TypeAlias"
        THEN "type " \o type.name \o " = " \o getParamType(type.aliasType) \o ";"
    ELSE IF type.type = "Enum"
        THEN "enum " \o type.name \o " {"
             \o Join([k \in 1..Len(type.cases) |-> EnumCaseText(type.cases[k])], ", ")
             \o "}"
    ELSE IF type.type = "StructLiteral"
        THEN "type " \o type.name \o " = " \o getParamType(type.typeLiteral) \o ";"
    ELSE ""

-----------------------------------------------------------------------------
(* generateSdk, the loop over externalTypes.  The loop state is the record *)
(* [view, modelViews]; currentView is 0 for null and otherwise the index   *)
(* in modelViews of the object it refers to.                               *)

NewModelView(path) == [path |-> path, externalTypes |-> <<>>, imports |-> <<>>]

relativePathOf(viewPath, externalType) ==
    LET relativePath == PathRelative(IF viewPath = "" THEN "." ELSE viewPath,
                                     IF externalType.path = "" THEN "." ELSE externalType.path)
    IN IF Len(relativePath) >= 3 /\ SubSeq(relativePath, 1, 3) = "../"
       THEN SubSeq(relativePath, 4, Len(relativePath))
       ELSE relativePath

NewImport(relativePath, externalType) ==
    [path |-> relativePath, models |-> <<[name |-> externalType.name]>>, last |-> FALSE]

\* the mutation of the inner loop that records no import in a model view
AddModelViewImportNothing(currentView, externalType) == currentView

\* the body of `if (currentView)` inside the inner loop: imports of a model view
AddModelViewImport(currentView, externalType) ==
    LET j == FirstIndex(currentView.imports,
                        LAMBDA importType :
                            /\ importType.path = externalType.path
                            /\ ~\E m \in 1..Len(importType.models) :
                                    importType.models[m].name = externalType.name)
        found == j # 0
        appended == IF found
                    THEN [currentView.imports EXCEPT
                            ![j].models = Append(@, [name |-> externalType.name]),
                            ![j].last = FALSE]
                    ELSE currentView.imports
        relativePath == relativePathOf(currentView.path, externalType)
    IN [currentView EXCEPT !.imports =
            IF ~found /\ ~\E k \in 1..Len(appended) : appended[k].path = relativePath
            THEN Append(appended, NewImport(relativePath, externalType))
            ELSE appended]

\* one iteration of `for (const nestedExternalType of externalTypes)`
NestedStep(st, externalType, nestedExternalType) ==
    LET isUsed == isExternalTypeUsed(externalType, nestedExternalType)
        st1 == IF /\ isUsed
                  /\ nestedExternalType.path # ""
                  /\ nestedExternalType.path # externalType.path
               THEN LET k == LastIndex(st.modelViews,
                                       LAMBDA mv : mv.path = nestedExternalType.path)
                    IN IF k # 0
                       THEN [st EXCEPT !.currentView = k]
                       ELSE [st EXCEPT
                               !.modelViews = Append(@, NewModelView(nestedExternalType.path)),
                               !.currentView = Len(st.modelViews) + 1]
               ELSE st
    IN IF st1.currentView # 0
       THEN [st1 EXCEPT !.modelViews[st1.currentView] = AddModelViewImport(@, externalType)]
       ELSE st1

RECURSIVE NestedLoop(_, _, _, _)
NestedLoop(st, externalType, externalTypes, k) ==
    IF k > Len(externalTypes) THEN st
    ELSE NestedLoop(NestedStep(st, externalType, externalTypes[k]),
                    externalType, externalTypes, k + 1)

\* the body of `if (!currentView)`: imports of the class view.  models holds
\* objects, so models.includes(name) is false for every name.
AddViewImport(view, externalType) ==
    LET j == FirstIndex(view.imports,
                        LAMBDA importType : importType.path = externalType.path)
    IN IF j # 0
       THEN [view EXCEPT !.imports[j].models = Append(@, [name |-> externalType.name]),
                         !.imports[j].last = FALSE]
       ELSE [view EXCEPT !.imports =
                Append(@, NewImport(relativePathOf("", externalType), externalType))]

\* the declaration is added to the model view of its own path
AddDeclaration(modelViews, externalType) ==
    LET j == FirstIndex(modelViews, LAMBDA mv : mv.path = externalType.path)
        decl == [type |-> generateExternalType(externalType)]
    IN IF j # 0
       THEN [modelViews EXCEPT ![j].externalTypes = Append(@, decl)]
       ELSE Append(modelViews,
                   [path |-> externalType.path, externalTypes |-> <<decl>>, imports |-> <<>>])

\* whether the declaration is rendered in a file of its own
IsExternal(classConfiguration, externalType) ==
    externalType.path # "" /\ ~Includes(classConfiguration.path, externalType.path)

\* one iteration of `for (const externalType of externalTypes)`
ExternalTypeStep(st, classConfiguration, externalType, externalTypes) ==
    IF IsExternal(classConfiguration, externalType)
    THEN LET st1 == NestedLoop([st EXCEPT !.currentView = 0], externalType, externalTypes, 1)
             st2 == IF st1.currentView = 0
                    THEN [st1 EXCEPT !.view = AddViewImport(@, externalType)]
                    ELSE st1
         IN [st2 EXCEPT !.modelViews = AddDeclaration(@, externalType)]
    ELSE [st EXCEPT !.view.externalTypes =
            Append(@, [type |-> generateExternalType(externalType)])]

RECURSIVE ExternalTypesLoop(_, _, _, _)
ExternalTypesLoop(st, classConfiguration, externalTypes, k) ==
    IF k > Len(externalTypes) THEN st
    ELSE ExternalTypesLoop(
            ExternalTypeStep(st, classConfiguration, externalTypes[k], externalTypes),
            classConfiguration, externalTypes, k + 1)

\* the mutation of the two loops that sets no mark
MarkImportsNone(imports) == imports

\* the two loops that set importType.last and mark the final model of each import
MarkImports(imports) ==
    [k \in 1..Len(imports) |->
        [imports[k] EXCEPT
            !.last = FALSE,
            !.models = [m \in 1..Len(@) |->
                          IF m = Len(@)
                          THEN [name |-> @[m].name, last |-> TRUE]
                          ELSE @[m]]]]

-----------------------------------------------------------------------------
(* Mustache.render of the two templates.  {{{x}}} interpolates x unescaped;*)
(* {{#xs}}...{{/xs}} repeats its body for every entry of xs; {{^last}} is  *)
(* rendered when `last` is false, looked up in the entry and, when the     *)
(* entry has no such property, in the enclosing entry.                     *)

HEADER ==
    "/**\n* This is an auto generated code. This code should not be modified since the file can be overwriten\n* if new genezio commands are executed.\n*/\n\n"

RenderList(items, parentLast) ==
    Concat([k \in 1..Len(items) |->
              items[k].name
              \o (IF (IF "last" \in DOMAIN items[k] THEN items[k].last ELSE parentLast)
                  THEN "" ELSE ", ")])

RenderImports(imports) ==
    Concat([k \in 1..Len(imports) |->
              "import { " \o RenderList(imports[k].models, imports[k].last)
              \o " } from \"./" \o imports[k].path \o "\";\n"])

RenderExternalTypes(externalTypes) ==
    Concat([k \in 1..Len(externalTypes) |-> "export " \o externalTypes[k].type \o "\n"])

\* the arguments of remote.call: {{{methodCaller}}}{{#sendParameters}}...{{/sendParameters}}
CallArguments(m) == m.methodCaller \o RenderList(m.sendParameters, FALSE)

RenderMethod(view, m) ==
    "  static async " \o m.name \o "(" \o RenderList(m.parameters, FALSE) \o ")"
    \o m.returnType \o " {\n"
    \o "    return await " \o view.className \o ".remote.call(" \o CallArguments(m) \o ");\n"
    \o "  }\n"

\* Mustache.render(modelTemplate, modelView)
RenderModelTemplate(modelView) ==
    HEADER \o RenderImports(modelView.imports) \o "\n"
    \o RenderExternalTypes(modelView.externalTypes)

\* Mustache.render(template, view)
RenderTemplate(view) ==
    HEADER \o "import { Remote } from \"./remote\";\n"
    \o RenderImports(view.imports) \o "\n"
    \o RenderExternalTypes(view.externalTypes) \o "\n"
    \o "export class " \o view.className \o " {\n"
    \o "  static remote = new Remote(\"" \o view.url \o "\");\n\n"
    \o Concat([k \in 1..Len(view.methods) |-> RenderMethod(view, view.methods[k])])
    \o "}\n\nexport { Remote };\n"

-----------------------------------------------------------------------------
(* generateSdk, one iteration of the loop over classesInfo.                *)

IsClassDefinition(e) == e.type = "ClassDefinition"

\* classDefinition after the loop over program.body: the last ClassDefinition
classDefinitionOf(body) == body[LastIndex(body, IsClassDefinition)]

HasClassDefinition(body) == LastIndex(body, IsClassDefinition) # 0

\* externalTypes after the loop over program.body
externalTypesOf(body) == SelectSeq(body, LAMBDA e : ~IsClassDefinition(e))

\* the two loops over the imports of the model views and of the class view
MarkViews(st) ==
    [view |-> [st.view EXCEPT !.imports = MarkImports(@)],
     modelViews |-> [k \in 1..Len(st.modelViews) |->
                       [st.modelViews[k] EXCEPT !.imports = MarkImports(@)]]]

NewView(classConfiguration, classDefinition) ==
    [className |-> classDefinition.name,
     url |-> "%%%link_to_be_replace%%%",
     methods |-> MethodViews(classConfiguration, classDefinition),
     externalTypes |-> <<>>,
     imports |-> <<>>]

\* view and modelViews when the iteration reaches `if (!exportClassChecker)`
ClassViews(classInfo) ==
    MarkViews(ExternalTypesLoop(
        [view |-> NewView(classInfo.classConfiguration,
                          classDefinitionOf(classInfo.program.body)),
         modelViews |-> <<>>,
         currentView |-> 0],
        classInfo.classConfiguration,
        externalTypesOf(classInfo.program.body), 1))

\* the mutation of sdkClassName that keeps rawSdkClassName
sdkClassNameRaw(className) == className \o ".sdk.ts"

sdkClassName(className) ==
    toLowerCase(CharAt(className \o ".sdk.ts", 1))
    \o SubSeq(className \o ".sdk.ts", 2, Len(className \o ".sdk.ts"))

\* the files pushed for the views of one class, in order, each with the view
\* it was rendered from
FilesOfViews(vs) ==
    [files |->
        <<[path |-> sdkClassName(vs.view.className),
           data |-> RenderTemplate(vs.view),
           className |-> vs.view.className]>>
        \o [k \in 1..Len(vs.modelViews) |->
              [path |-> vs.modelViews[k].path \o ".ts",
               data |-> RenderModelTemplate(vs.modelViews[k]),
               className |-> ""]],
     rendered |->
        <<[kind |-> "class", view |-> vs.view]>>
        \o [k \in 1..Len(vs.modelViews) |-> [kind |-> "model", view |-> vs.modelViews[k]]]]

ClassOutput(classInfo) == FilesOfViews(ClassViews(classInfo))

\* data of remote.ts: the nodeSdkTs template with its %%%url%%% marker replaced
RemoteData == "<nodeSdkTs url=undefined>"

RemoteFile == [className |-> "Remote", path |-> "remote.ts", data |-> RemoteData]

-----------------------------------------------------------------------------
(* The inputs of generateSdk the model draws from.                         *)

NoDefault == [value |-> "", type |-> "undefined"]
Param(n, o, t) ==
    [name |-> n, optional |-> o, paramType |-> t,
     hasDefaultValue |-> FALSE, defaultValue |-> NoDefault]
ParamWithDefault(n, t, d) ==
    [name |-> n, optional |-> FALSE, paramType |-> t,
     hasDefaultValue |-> TRUE, defaultValue |-> d]
Method(n, ps, rt) ==
    [type |-> "MethodDefinition", name |-> n, params |-> ps, returnType |-> rt]
ClassDef(n, ms) == [type |-> "ClassDefinition", name |-> n, methods |-> ms]
Struct(n, p, props) ==
    [type |-> "StructLiteral", name |-> n, path |-> p, typeLiteral |-> TypeLiteralOf(props)]
Alias(n, p, t) == [type |-> "TypeAlias", name |-> n, path |-> p, aliasType |-> t]
ClassConfiguration(p, t, ms) == [path |-> p, type |-> t, methods |-> ms]
ClassInfo(hasBody, body, cfg) ==
    [program |-> [hasBody |-> hasBody, body |-> body], classConfiguration |-> cfg]
Input(classesInfo) == [classesInfo |-> classesInfo]

Distinct(s) == \A j, k \in 1..Len(s) : j # k => s[j].name # s[k].name

\* the method configurations: for each method of the class, none or a trigger
MethodConfigurations(ms) ==
    {SelectSeq([k \in 1..Len(ms) |-> [name |-> ms[k].name, type |-> c[k]]],
               LAMBDA m : m.type # "none")
        : c \in [1..Len(ms) -> TriggerType \cup {"none"}]}

\* 1. exposure: one class, its methods and their triggers vary
ExposureMethods ==
    {Method("create", <<Param("name", FALSE, Lit("StringLiteral")),
                        Param("email", FALSE, Lit("StringLiteral"))>>, Lit("VoidLiteral")),
     Method("internalMethod", <<>>, Lit("VoidLiteral")),
     Method("list", <<>>, ArrayOf(Lit("StringLiteral")))}

ExposureInputs ==
    {Input(<<ClassInfo(TRUE, <<ClassDef("User", ms)>>,
                       ClassConfiguration("api/User.ts", t, cfg))>>)
        : <<ms, t, cfg>> \in
            {x \in UNION {{<<ms, t, cfg>> : t \in TriggerType, cfg \in MethodConfigurations(ms)}
                             : ms \in SeqsOf(ExposureMethods, 0, MaxMethods)}
                : Distinct(x[1])}}

\* 2. signatures: one exposed method, its parameters and return type vary
ParamNames == {"name", "class", "class_", "type"}

Params ==
    UNION {{Param(n, FALSE, Lit("StringLiteral")),
            Param(n, TRUE, ArrayOf(Lit("IntegerLiteral"))),
            ParamWithDefault(n, Lit("StringLiteral"), [value |-> "x", type |-> "StringLiteral"]),
            ParamWithDefault(n, Lit("IntegerLiteral"), [value |-> "1", type |-> "IntegerLiteral"])}
              : n \in ParamNames}

ReturnTypes ==
    {Absent, Lit("VoidLiteral"), Lit("StringLiteral"), PromiseOf(Lit("StringLiteral")),
     PromiseOf(PromiseOf(Lit("AnyLiteral"))), ArrayOf(PromiseOf(Lit("BooleanLiteral")))}

SignatureInputs ==
    {Input(<<ClassInfo(TRUE, <<ClassDef("User", <<Method("create", ps, rt)>>)>>,
                       ClassConfiguration("api/User.ts", jsonrpc, <<>>))>>)
        : ps \in SeqsOf(Params, 0, MaxParams), rt \in ReturnTypes}

\* 3. declarations: one class with exposed methods; the declarations of the
\*    Program body, their home paths and what they refer to vary
DeclNames == {"A", "B"}
HomePaths == {"", "api/Bar", "models/a", "models/b"}

Decls ==
    {Struct(n, p, <<Property("id", FALSE, t)>>)
        : n \in DeclNames, p \in HomePaths,
          t \in {Lit("StringLiteral")} \cup {Custom(r) : r \in DeclNames}}
    \cup {Alias(n, p, ArrayOf(Custom(r))) : n \in DeclNames, p \in HomePaths, r \in DeclNames}

DeclMethods ==
    {<<Method("get", <<Param("item", FALSE, Custom("A"))>>, PromiseOf(Custom("B")))>>,
     <<Method("get", <<Param("item", FALSE, Custom("A"))>>, Lit("VoidLiteral")),
       Method("count", <<>>, Lit("IntegerLiteral"))>>}

DeclInputs ==
    {Input(<<ClassInfo(TRUE, <<ClassDef("Bar", ms)>> \o ds,
                       ClassConfiguration("api/Bar.ts", jsonrpc, <<>>))>>)
        : ms \in DeclMethods,
          ds \in {d \in SeqsOf(Decls, 0, MaxDecls) : Distinct(d)}}


\* 4. several classes: entries without body, without class, without exposed
\*    method, and exposed classes with and without declarations of their own
UserConfiguration(t) == ClassConfiguration("api/User.ts", t, <<>>)

CreateMethod ==
    Method("create", <<Param("name", FALSE, Lit("StringLiteral"))>>, Lit("VoidLiteral"))

ItemStruct == Struct("Item", "models/item", <<Property("id", FALSE, Lit("StringLiteral"))>>)

GetMethod == Method("get", <<Param("item", FALSE, Custom("Item"))>>, Lit("VoidLiteral"))

CallClassInfos ==
    {ClassInfo(FALSE, <<>>, UserConfiguration(jsonrpc)),
     ClassInfo(TRUE, <<>>, UserConfiguration(jsonrpc)),
     ClassInfo(TRUE, <<ClassDef("User", <<CreateMethod>>)>>, UserConfiguration(http)),
     ClassInfo(TRUE, <<ClassDef("Bar", <<GetMethod>>), ItemStruct>>,
               ClassConfiguration("api/Bar.ts", jsonrpc, <<>>))}

ClassInfos ==
    CallClassInfos
    \cup {ClassInfo(TRUE, <<ClassDef("User", <<CreateMethod>>)>>, UserConfiguration(jsonrpc)),
          ClassInfo(TRUE, <<ItemStruct>>, UserConfiguration(jsonrpc)),
          ClassInfo(TRUE, <<ItemStruct, ClassDef("Baz", <<GetMethod>>)>>,
                    ClassConfiguration("api/Baz.ts", jsonrpc, <<>>)),
          ClassInfo(TRUE, <<ClassDef("Remote", <<GetMethod>>),
                            Struct("Item", "remote", <<>>)>>,
                    ClassConfiguration("api/Remote.ts", jsonrpc, <<>>))}

\* 6. providers: a declaration of one type file refers to two declarations
\*    of another type file; the order of the three in the body varies
ProviderDecls ==
    {Struct("A", "models/a", <<Property("b", FALSE, Custom("B")),
                               Property("c", FALSE, Custom("C"))>>),
     Struct("B", "models/b", <<Property("id", FALSE, Lit("StringLiteral"))>>),
     Alias("C", "models/b", ArrayOf(Lit("StringLiteral")))}

ProviderInputs ==
    {Input(<<ClassInfo(TRUE, <<ClassDef("Bar", <<Method("get", <<Param("item", FALSE, Custom("A"))>>,
                                                        Lit("VoidLiteral"))>>)>> \o ds,
                       ClassConfiguration("api/Bar.ts", jsonrpc, <<>>))>>)
        : ds \in {d \in SeqsOf(ProviderDecls, 3, 3) : Distinct(d)}}

\* 5. class names: the case of the letters of the class name varies
ClassNames == {"UserAPI", "user", "U"}

NamingInputs ==
    {Input(<<ClassInfo(TRUE, <<ClassDef(n, <<GetMethod>>), ItemStruct>>,
                       ClassConfiguration("api/User.ts", jsonrpc, <<>>))>>)
        : n \in ClassNames}

ClassesInputs == {Input(cs) : cs \in SeqsOf(ClassInfos, 0, MaxClasses)}

CallInputs == {Input(cs) : cs \in SeqsOf(CallClassInfos, 0, MaxClasses)}

\* 7. locality: the home path of the one declaration of the class varies
\*    over no path, the file of the class and other files
LocalityPaths == {"", "api/Bar", "Bar", "api/B", "models/item"}

LocalityInputs ==
    {Input(<<ClassInfo(TRUE, <<ClassDef("Bar", <<GetMethod>>),
                              Struct("Item", p, <<Property("id", FALSE, Lit("StringLiteral"))>>)>>,
                       ClassConfiguration("api/Bar.ts", jsonrpc, <<>>))>>)
        : p \in LocalityPaths}

\* 8. directories: a declaration refers to a declaration of another type
\*    file; one of the two files lies in the directory named like the other
NestedPaths == {<<"models/a", "models/a/b">>, <<"models/a/b", "models/a">>,
                <<"models/a", "types/b">>}

NestedDecls(paths) ==
    {Struct("A", paths[1], <<Property("b", FALSE, Custom("B"))>>),
     Struct("B", paths[2], <<Property("id", FALSE, Lit("StringLiteral"))>>)}

NestedInputs ==
    {Input(<<ClassInfo(TRUE, <<ClassDef("Bar", <<Method("get", <<Param("item", FALSE, Custom("A"))>>,
                                                        Lit("VoidLiteral"))>>)>> \o ds,
                       ClassConfiguration("api/Bar.ts", jsonrpc, <<>>))>>)
        : ds \in UNION {{d \in SeqsOf(NestedDecls(paths), 2, 2) : Distinct(d)}
                           : paths \in NestedPaths}}

\* 9. silent classes: a class none of whose methods is exposed and that has
\*    a declaration with a type file, alone, before and after exposed classes
SilentClassInfos ==
    {ClassInfo(TRUE, <<ClassDef("Bar", <<GetMethod>>), ItemStruct>>,
               ClassConfiguration("api/Bar.ts", http, <<>>)),
     ClassInfo(TRUE, <<ClassDef("User", <<CreateMethod>>)>>, UserConfiguration(jsonrpc)),
     ClassInfo(TRUE, <<ItemStruct, ClassDef("Baz", <<GetMethod>>)>>,
               ClassConfiguration("api/Baz.ts", jsonrpc, <<>>))}

SilentInputs == {Input(cs) : cs \in SeqsOf(SilentClassInfos, 1, 2)}

\* 10. enums: the class declares one enum; the cases, the kinds of their
\*     values and their order vary.  A case without value has value undefined.
MaxCases == 2

EnumCase(n, t, v) == [name |-> n, type |-> t, value |-> v, hasValue |-> TRUE]
EnumCaseNoValue(n, t) == [name |-> n, type |-> t, value |-> "undefined", hasValue |-> FALSE]
EnumDecl(n, p, cases) == [type |-> "Enum", name |-> n, path |-> p, cases |-> cases]

EnumCases ==
    {EnumCase("RED", "StringLiteral", "red"),
     EnumCase("ONE", "DoubleLiteral", "1"),
     EnumCaseNoValue("NONE", "DoubleLiteral"),
     EnumCase("TWO", "IntegerLiteral", "2")}

EnumInputs ==
    {Input(<<ClassInfo(TRUE, <<ClassDef("Bar", <<Method("get", <<Param("color", FALSE, Custom("Color"))>>,
                                                        Lit("VoidLiteral"))>>),
                              EnumDecl("Color", "", cases)>>,
                       ClassConfiguration("api/Bar.ts", jsonrpc, <<>>))>>)
        : cases \in {cs \in SeqsOf(EnumCases, 1, MaxCases) : Distinct(cs)}}

Inputs ==
    ExposureInputs \cup SignatureInputs \cup DeclInputs \cup ClassesInputs
    \cup NamingInputs \cup ProviderInputs \cup LocalityInputs \cup NestedInputs
    \cup SilentInputs \cup EnumInputs

\* the nodes handed to getParamType and getReturnType on their own
Leaves ==
    {Lit(t) : t \in {"StringLiteral", "IntegerLiteral", "FloatLiteral", "DoubleLiteral",
                     "BooleanLiteral", "AnyLiteral", "DateType", "VoidLiteral",
                     "NullLiteral", "BigIntLiteral", "ConstType"}}
    \cup {Custom("Item"), EnumRef("Color"), Absent}

\* the nodes built from the nodes of sub, the binary ones from those of few
Composites(sub, few) ==
    {ArrayOf(n) : n \in sub} \cup {PromiseOf(n) : n \in sub}
    \cup {MapOf(Lit("StringLiteral"), v) : v \in few}
    \cup {UnionOf(<<a, b>>) : a \in few, b \in few}
    \cup {TypeLiteralOf(<<Property("id", o, t)>>) : o \in BOOLEAN, t \in few}

Grow(nodes) ==
    nodes \cup Composites(nodes \ {Absent},
                          {n \in nodes : n.type \in {"StringLiteral", "CustomNodeLiteral",
                                                     "PromiseType"}})

RECURSIVE Nodes(_)
Nodes(d) == IF d = 0 THEN Leaves ELSE Grow(Nodes(d - 1))

NoInput == Input(<<>>)
NoNode == Lit("AnyLiteral")

-----------------------------------------------------------------------------
(* generateSdk as a state machine: the call, one step for every entry of   *)
(* classesInfo, the push of remote.ts and the return.                      *)

InLoop == pc = "loop" /\ classIdx <= Len(sdkGeneratorInput.classesInfo)

\* the components that take no part in the run
Idle == [pc |-> "idle"]

TypesUnchanged == UNCHANGED <<elem, typeOp, typeText, calls, yaml, db>>

\* the mutation of the call that keeps the files of the call before
GenerateSdkKeepsFiles ==
    /\ pc = "call"
    /\ pc' = "loop"
    /\ classIdx' = 1
    /\ UNCHANGED <<files, rendered>>
    /\ UNCHANGED <<sdkGeneratorInput, earlier>>
    /\ TypesUnchanged

\* generateSdkOutput = { files: [] }
GenerateSdk ==
    /\ pc = "call"
    /\ pc' = "loop"
    /\ classIdx' = 1
    /\ files' = <<>>
    /\ rendered' = <<>>
    /\ UNCHANGED <<sdkGeneratorInput, earlier>>
    /\ TypesUnchanged

\* the mutation of `continue` that leaves the loop
ContinueBreaks ==
    /\ classIdx' = Len(sdkGeneratorInput.classesInfo) + 1
    /\ UNCHANGED <<pc, files, rendered, sdkGeneratorInput, earlier>>
    /\ TypesUnchanged

\* `continue`: on to the next classInfo, nothing pushed
Continue ==
    /\ classIdx' = classIdx + 1
    /\ UNCHANGED <<pc, files, rendered, sdkGeneratorInput, earlier>>
    /\ TypesUnchanged

\* which way the iteration for classInfo goes
Outcome(classInfo) ==
    IF ~classInfo.program.hasBody THEN "undefined body"
    ELSE IF ~HasClassDefinition(classInfo.program.body) THEN "no class definition"
    ELSE IF ~exportClassChecker(classInfo.classConfiguration,
                                classDefinitionOf(classInfo.program.body))
        THEN "no export"
    ELSE "emit"

\* program.body === undefined
SkipUndefinedBody ==
    /\ InLoop
    /\ Outcome(sdkGeneratorInput.classesInfo[classIdx]) = "undefined body"
    /\ Continue

\* classDefinition === undefined
SkipNoClassDefinition ==
    /\ InLoop
    /\ Outcome(sdkGeneratorInput.classesInfo[classIdx]) = "no class definition"
    /\ Continue

\* the mutation of `if (!exportClassChecker) continue` that stands after the
\* push of the proxy file: the type files of the class are pushed
SkipNoExportAfterProxy ==
    /\ InLoop
    /\ Outcome(sdkGeneratorInput.classesInfo[classIdx]) = "no export"
    /\ LET out == ClassOutput(sdkGeneratorInput.classesInfo[classIdx])
       IN /\ files' = files \o Tail(out.files)
          /\ rendered' = rendered \o [k \in 1..(Len(out.rendered) - 1) |->
                                        [kind |-> out.rendered[k + 1].kind,
                                         view |-> out.rendered[k + 1].view,
                                         entry |-> classIdx]]
    /\ classIdx' = classIdx + 1
    /\ UNCHANGED <<pc, sdkGeneratorInput, earlier>>
    /\ TypesUnchanged

\* !exportClassChecker
SkipNoExport ==
    /\ InLoop
    /\ Outcome(sdkGeneratorInput.classesInfo[classIdx]) = "no export"
    /\ Continue

\* the views rendered in this iteration, each with the index of its classInfo
Tagged(views) ==
    [k \in 1..Len(views) |->
        [kind |-> views[k].kind, view |-> views[k].view, entry |-> classIdx]]

\* the mutation of the push that carries the paths pushed for earlier classes
\* over to the next: a file of a path already in the list is not pushed
PushOnce(out) ==
    LET fresh == {k \in 1..Len(out.files) :
                    \A j \in 1..Len(files) : files[j].path # out.files[k].path}
        keep == SelectSeq([k \in 1..Len(out.files) |-> k], LAMBDA k : k \in fresh)
    IN /\ files' = files \o [j \in 1..Len(keep) |-> out.files[keep[j]]]
       /\ rendered' = rendered \o Tagged([j \in 1..Len(keep) |-> out.rendered[keep[j]]])

Push(out) ==
    /\ files' = files \o out.files
    /\ rendered' = rendered \o Tagged(out.rendered)

\* the proxy file of the class and the type files of its model views are pushed
EmitClass ==
    /\ InLoop
    /\ Outcome(sdkGeneratorInput.classesInfo[classIdx]) = "emit"
    /\ Push(ClassOutput(sdkGeneratorInput.classesInfo[classIdx]))
    /\ classIdx' = classIdx + 1
    /\ UNCHANGED <<pc, sdkGeneratorInput, earlier>>
    /\ TypesUnchanged

\* the mutation of the end of the call that pushes remote.ts only when a
\* class was generated
PushRemoteIfAny ==
    /\ pc = "loop"
    /\ classIdx > Len(sdkGeneratorInput.classesInfo)
    /\ files' = IF Len(files) > 0 THEN Append(files, RemoteFile) ELSE files
    /\ rendered' = IF Len(files) > 0 THEN Append(rendered, [kind |-> "remote"]) ELSE rendered
    /\ pc' = "done"
    /\ UNCHANGED <<classIdx, sdkGeneratorInput, earlier>>
    /\ TypesUnchanged

\* generate remote.js, return generateSdkOutput
PushRemote ==
    /\ pc = "loop"
    /\ classIdx > Len(sdkGeneratorInput.classesInfo)
    /\ files' = Append(files, RemoteFile)
    /\ rendered' = Append(rendered, [kind |-> "remote"])
    /\ pc' = "done"
    /\ UNCHANGED <<classIdx, sdkGeneratorInput, earlier>>
    /\ TypesUnchanged

\* the caller calls generateSdk again on the same SdkGenerator; the result of
\* the call that returned is remembered or not
CallAgain ==
    /\ pc = "done"
    /\ \E input \in CallInputs, remember \in BOOLEAN :
        /\ sdkGeneratorInput' = input
        /\ earlier' = IF remember
                      THEN [set |-> TRUE, input |-> sdkGeneratorInput, files |-> files,
                            between |-> FALSE]
                      ELSE [earlier EXCEPT !.between =
                                @ \/ (earlier.set /\ earlier.input # sdkGeneratorInput)]
    /\ pc' = "call"
    /\ UNCHANGED <<classIdx, files, rendered>>
    /\ TypesUnchanged

NoEarlier == [set |-> FALSE, input |-> NoInput, files |-> <<>>, between |-> FALSE]

Init ==
    /\ sdkGeneratorInput \in Inputs
    /\ pc = "call"
    /\ classIdx = 1
    /\ files = <<>>
    /\ rendered = <<>>
    /\ earlier = NoEarlier
    /\ elem = NoNode
    /\ typeOp = "none"
    /\ typeText = ""
    /\ calls = Idle
    /\ yaml = Idle
    /\ db = Idle

Next ==
    \/ GenerateSdk
    \/ SkipUndefinedBody
    \/ SkipNoClassDefinition
    \/ SkipNoExport
    \/ EmitClass
    \/ PushRemote

Spec == Init /\ [][Next]_vars

\* repeated calls on one SdkGenerator
InitCalls ==
    /\ sdkGeneratorInput \in CallInputs
    /\ pc = "call"
    /\ classIdx = 1
    /\ files = <<>>
    /\ rendered = <<>>
    /\ earlier = NoEarlier
    /\ elem = NoNode
    /\ typeOp = "none"
    /\ typeText = ""
    /\ calls = Idle
    /\ yaml = Idle
    /\ db = Idle

NextCalls == Next \/ CallAgain

SpecCalls == InitCalls /\ [][NextCalls]_vars

\* getParamType and getReturnType applied to a node
GenerateUnchanged ==
    UNCHANGED <<sdkGeneratorInput, pc, classIdx, files, rendered, earlier, calls, yaml, db>>

\* the node variants getParamType has a branch for
ExplicitCases ==
    {"CustomNodeLiteral", "StringLiteral", "IntegerLiteral", "FloatLiteral",
     "DoubleLiteral", "BooleanLiteral", "AnyLiteral", "ArrayType", "PromiseType",
     "Enum", "TypeAlias", "UnionType", "TypeLiteral", "DateType"}

\* the mutation of getParamType that raises for a variant it has no branch for:
\* the call does not return
GetParamTypeRejectsUnknown ==
    /\ typeOp = "none"
    /\ elem.type \in ExplicitCases
    /\ typeOp' = "getParamType"
    /\ typeText' = getParamType(elem)
    /\ UNCHANGED elem
    /\ GenerateUnchanged

\* elem with every CustomNodeLiteral replaced by an AnyLiteral
RECURSIVE WithoutCustom(_)
WithoutCustom(e) ==
    IF e.type = "CustomNodeLiteral" THEN Lit("AnyLiteral")
    ELSE IF e.type \in {"ArrayType", "PromiseType"}
        THEN [e EXCEPT !.generic = WithoutCustom(@)]
    ELSE IF e.type = "UnionType"
        THEN [e EXCEPT !.params = [k \in 1..Len(@) |-> WithoutCustom(@[k])]]
    ELSE IF e.type = "TypeLiteral"
        THEN [e EXCEPT !.properties =
                [k \in 1..Len(@) |-> [@[k] EXCEPT !.type = WithoutCustom(@)]]]
    ELSE e

\* the mutation of getParamType that maps a CustomNodeLiteral like an AnyLiteral
GetParamTypeForgetsCustom ==
    /\ typeOp = "none"
    /\ elem.type # "undefined"
    /\ typeOp' = "getParamType"
    /\ typeText' = getParamType(WithoutCustom(elem))
    /\ UNCHANGED elem
    /\ GenerateUnchanged

GetParamType ==
    /\ typeOp = "none"
    /\ elem.type # "undefined"
    /\ typeOp' = "getParamType"
    /\ typeText' = getParamType(elem)
    /\ UNCHANGED elem
    /\ GenerateUnchanged

GetReturnType ==
    /\ typeOp = "none"
    /\ typeOp' = "getReturnType"
    /\ typeText' = getReturnType(elem)
    /\ UNCHANGED elem
    /\ GenerateUnchanged

InitTypes ==
    /\ sdkGeneratorInput = NoInput
    /\ pc = "idle"
    /\ classIdx = 1
    /\ files = <<>>
    /\ rendered = <<>>
    /\ earlier = NoEarlier
    /\ elem \in Nodes(MaxDepth)
    /\ typeOp = "none"
    /\ typeText = ""
    /\ calls = Idle
    /\ yaml = Idle
    /\ db = Idle

NextTypes == GetParamType \/ GetReturnType

SpecTypes == InitTypes /\ [][NextTypes]_vars

-----------------------------------------------------------------------------
(* generateSdk invocations side by side.  generateSdkOutput, view and      *)
(* modelViews are locals of an invocation; SdkGenerator has no field, so   *)
(* invocations on one instance and on several instances are alike.  The    *)
(* invocations are interleaved between the iterations of their loops.      *)

Invocations == {1, 2}

ConcurrentClassInfos ==
    {ClassInfo(FALSE, <<>>, UserConfiguration(jsonrpc)),
     ClassInfo(TRUE, <<ClassDef("User", <<CreateMethod>>)>>, UserConfiguration(jsonrpc)),
     ClassInfo(TRUE, <<ClassDef("Bar", <<GetMethod>>), ItemStruct>>,
               ClassConfiguration("api/Bar.ts", jsonrpc, <<>>))}

ConcurrentInputs == {Input(cs) : cs \in SeqsOf(ConcurrentClassInfos, 0, MaxClasses)}

Invocation(input) ==
    [input |-> input, pc |-> "call", classIdx |-> 1, files |-> <<>>, overlapped |-> FALSE]

\* another invocation is inside its loop
Overlaps(i) == \E j \in Invocations \ {i} : calls[j].pc = "loop"

ConcurrentUnchanged ==
    UNCHANGED <<sdkGeneratorInput, pc, classIdx, files, rendered, earlier,
                elem, typeOp, typeText, yaml, db>>

\* generateSdkOutput = { files: [] }
ConcurrentGenerateSdk(i) ==
    /\ calls[i].pc = "call"
    /\ calls' = [calls EXCEPT ![i].pc = "loop", ![i].classIdx = 1, ![i].files = <<>>]
    /\ ConcurrentUnchanged

\* what one iteration pushes for classInfo
Pushed(classInfo) ==
    IF Outcome(classInfo) = "emit" THEN ClassOutput(classInfo).files ELSE <<>>

\* the mutation of the iteration in which generateSdkOutput is one object
\* shared by the invocations
ConcurrentIterationShared(i) ==
    /\ calls[i].pc = "loop"
    /\ calls[i].classIdx <= Len(calls[i].input.classesInfo)
    /\ calls' = [j \in Invocations |->
                    IF j = i
                    THEN [calls[j] EXCEPT
                            !.files = @ \o Pushed(calls[i].input.classesInfo[calls[i].classIdx]),
                            !.classIdx = @ + 1,
                            !.overlapped = @ \/ Overlaps(i)]
                    ELSE [calls[j] EXCEPT
                            !.files = @ \o Pushed(calls[i].input.classesInfo[calls[i].classIdx])]]
    /\ ConcurrentUnchanged

\* one iteration of the loop over classesInfo of invocation i
ConcurrentIteration(i) ==
    /\ calls[i].pc = "loop"
    /\ calls[i].classIdx <= Len(calls[i].input.classesInfo)
    /\ calls' = [calls EXCEPT
                    ![i].files = @ \o Pushed(calls[i].input.classesInfo[calls[i].classIdx]),
                    ![i].classIdx = @ + 1,
                    ![i].overlapped = @ \/ Overlaps(i)]
    /\ ConcurrentUnchanged

\* generate remote.js, return generateSdkOutput
ConcurrentPushRemote(i) ==
    /\ calls[i].pc = "loop"
    /\ calls[i].classIdx > Len(calls[i].input.classesInfo)
    /\ calls' = [calls EXCEPT ![i].files = Append(@, RemoteFile), ![i].pc = "done"]
    /\ ConcurrentUnchanged

InitConcurrent ==
    /\ sdkGeneratorInput = NoInput
    /\ pc = "idle"
    /\ classIdx = 1
    /\ files = <<>>
    /\ rendered = <<>>
    /\ earlier = NoEarlier
    /\ elem = NoNode
    /\ typeOp = "none"
    /\ typeText = ""
    /\ calls \in [Invocations -> {Invocation(input) : input \in ConcurrentInputs}]
    /\ yaml = Idle
    /\ db = Idle

NextConcurrent ==
    \E i \in Invocations :
        \/ ConcurrentGenerateSdk(i)
        \/ ConcurrentIteration(i)
        \/ ConcurrentPushRemote(i)

SpecConcurrent == InitConcurrent /\ [][NextConcurrent]_vars

-----------------------------------------------------------------------------
(* YamlConfigurationIOController: read, write, and modifications of the    *)
(* file by others.  The clock advances with every event that takes a time  *)
(* stamp, so no two stamps are equal.  The content of the file is named by *)
(* the time it was written at; the configuration parsed from a content is  *)
(* named like the content.  read is suspended while it awaits readFile:    *)
(* a modification by others can happen before it goes on.  The caller      *)
(* awaits one read or write before it starts the next.                     *)

Undefined == -1

\* what the parser makes of a content: a configuration, a configuration of
\* the earlier format that tryV2Migration converts, or an error
FileKinds == {"valid", "legacy", "invalid"}

NoResult == [kind |-> "none", config |-> Undefined, fileWas |-> Undefined]

\* the controller after construction, and a file of the given kind
NewController(kind) ==
    [pc |-> "ready",
     now |-> 0,
     file |-> [content |-> 0, kind |-> kind, mtime |-> 0],
     cachedConfig |-> Undefined,
     latestRead |-> Undefined,
     reading |-> [content |-> Undefined, kind |-> "valid"],
     result |-> NoResult]

YamlUnchanged ==
    UNCHANGED <<sdkGeneratorInput, pc, classIdx, files, rendered, earlier,
                elem, typeOp, typeText, calls, db>>

\* this.cachedConfig && cache && this.latestRead && this.latestRead >= lastModified
CacheHit(cache) ==
    /\ yaml.cachedConfig # Undefined
    /\ cache
    /\ yaml.latestRead # Undefined
    /\ yaml.latestRead >= yaml.file.mtime

\* read returns a clone of the cached configuration
YamlReadCached ==
    /\ yaml.pc = "ready"
    /\ \E cache \in BOOLEAN :
        /\ CacheHit(cache)
        /\ yaml' = [yaml EXCEPT !.result = [kind |-> "cached",
                                            config |-> yaml.cachedConfig,
                                            fileWas |-> yaml.file.content]]
    /\ YamlUnchanged

\* read goes to the file: readFile returns the content of that moment
YamlReadFile ==
    /\ yaml.pc = "ready"
    /\ \E cache \in BOOLEAN :
        /\ ~CacheHit(cache)
        /\ yaml' = [yaml EXCEPT !.pc = "reading",
                                !.reading = [content |-> yaml.file.content,
                                             kind |-> yaml.file.kind]]
    /\ YamlUnchanged

\* read goes on: latestRead = new Date(), the content parses
YamlReadParsed ==
    /\ yaml.pc = "reading"
    /\ yaml.reading.kind = "valid"
    /\ yaml.now + 1 <= MaxTime
    /\ yaml' = [yaml EXCEPT !.pc = "ready",
                            !.now = @ + 1,
                            !.latestRead = yaml.now + 1,
                            !.cachedConfig = yaml.reading.content,
                            !.result = [kind |-> "parsed",
                                        config |-> yaml.reading.content,
                                        fileWas |-> yaml.file.content]]
    /\ YamlUnchanged

\* read goes on: the content is of the earlier format; the migrated
\* configuration is written to the file and cached
YamlReadMigrated ==
    /\ yaml.pc = "reading"
    /\ yaml.reading.kind = "legacy"
    /\ yaml.now + 2 <= MaxTime
    /\ yaml' = [yaml EXCEPT !.pc = "ready",
                            !.now = @ + 2,
                            !.latestRead = yaml.now + 1,
                            !.file = [content |-> yaml.now + 2, kind |-> "valid",
                                      mtime |-> yaml.now + 2],
                            !.cachedConfig = yaml.now + 2,
                            !.result = [kind |-> "parsed",
                                        config |-> yaml.now + 2,
                                        fileWas |-> yaml.now + 2]]
    /\ YamlUnchanged

\* read goes on: the content does not parse and read throws a UserError
YamlReadRejected ==
    /\ yaml.pc = "reading"
    /\ yaml.reading.kind = "invalid"
    /\ yaml.now + 1 <= MaxTime
    /\ yaml' = [yaml EXCEPT !.pc = "ready",
                            !.now = @ + 1,
                            !.latestRead = yaml.now + 1,
                            !.result = [kind |-> "error",
                                        config |-> Undefined,
                                        fileWas |-> yaml.file.content]]
    /\ YamlUnchanged

\* write(data): the file is written, latestRead = new Date(), data is cached
YamlWrite ==
    /\ yaml.pc = "ready"
    /\ yaml.now + 1 <= MaxTime
    /\ yaml' = [yaml EXCEPT !.now = @ + 1,
                            !.file = [content |-> yaml.now + 1, kind |-> "valid",
                                      mtime |-> yaml.now + 1],
                            !.latestRead = yaml.now + 1,
                            !.cachedConfig = yaml.now + 1,
                            !.result = [kind |-> "written",
                                        config |-> yaml.now + 1,
                                        fileWas |-> yaml.now + 1]]
    /\ YamlUnchanged

\* somebody else modifies the file
YamlExternalModify ==
    /\ yaml.pc \in {"ready", "reading"}
    /\ yaml.now + 1 <= MaxTime
    /\ \E kind \in FileKinds :
        yaml' = [yaml EXCEPT !.now = @ + 1,
                             !.file = [content |-> yaml.now + 1, kind |-> kind,
                                       mtime |-> yaml.now + 1]]
    /\ YamlUnchanged

InitYaml ==
    /\ sdkGeneratorInput = NoInput
    /\ pc = "idle"
    /\ classIdx = 1
    /\ files = <<>>
    /\ rendered = <<>>
    /\ earlier = NoEarlier
    /\ elem = NoNode
    /\ typeOp = "none"
    /\ typeText = ""
    /\ calls = Idle
    /\ yaml \in {NewController(kind) : kind \in FileKinds}
    /\ db = Idle

NextYaml ==
    \/ YamlReadCached
    \/ YamlReadFile
    \/ YamlReadParsed
    \/ YamlReadMigrated
    \/ YamlReadRejected
    \/ YamlWrite
    \/ YamlExternalModify

SpecYaml == InitYaml /\ [][NextYaml]_vars

-----------------------------------------------------------------------------
(* getOrCreateDatabase: one run of the function against the remote state   *)
(* of the database.  db.pc is the await the run stands at; db.requests     *)
(* lists the requests issued so far; the remote state may be changed once  *)
(* by another client while the run is suspended.                           *)

\* the two functions of that name: the one with the parameter ask and the
\* one of the deploy command, which has none
Functions == {"ask", "deploy"}

NoDatabase == [defined |-> FALSE, id |-> "", name |-> "", region |-> "", type |-> ""]

Database(id, name, region, type) ==
    [defined |-> TRUE, id |-> id, name |-> name, region |-> region, type |-> type]

\* createDatabaseReq: the type is optional
CreateDatabaseRequests ==
    {[name |-> "main", region |-> "us-east-1", type |-> t] : t \in {"", "postgres-neon", "mongo-atlas"}}

\* the database of that name on the platform and whether it is linked to the
\* environment
Regions == {"aws-us-east-1", "us-east-1", "aws-eu-central-1"}

RemoteStates ==
    {[database |-> NoDatabase, linked |-> FALSE]}
    \cup {[database |-> Database("id1", "main", r, "postgres-neon"), linked |-> l]
            : r \in Regions, l \in BOOLEAN}

\* String.prototype.replace with a string pattern: the first occurrence
ReplaceFirst(str, pattern, replacement) ==
    LET at == {k \in 1..(Len(str) - Len(pattern) + 1) :
                    SubSeq(str, k, k + Len(pattern) - 1) = pattern}
    IN IF at = {} THEN str
       ELSE LET k == CHOOSE j \in at : \A other \in at : j <= other
            IN SubSeq(str, 1, k - 1) \o replacement
               \o SubSeq(str, k + Len(pattern), Len(str))

NewRun(fn, ask, req, remote) ==
    [pc |-> "getDatabaseByName",
     fn |-> fn,
     ask |-> ask,
     req |-> req,
     remote |-> remote,
     changed |-> FALSE,
     database |-> NoDatabase,
     found |-> "unknown",
     linkedFound |-> "unknown",
     warned |-> FALSE,
     prompts |-> 0,
     declined |-> FALSE,
     requests |-> <<>>,
     result |-> [kind |-> "none", value |-> NoDatabase]]

DatabaseUnchanged ==
    UNCHANGED <<sdkGeneratorInput, pc, classIdx, files, rendered, earlier,
                elem, typeOp, typeText, calls, yaml>>

Requested(name) == [db EXCEPT !.requests = Append(@, name)]

Returned(run, kind, value) ==
    [run EXCEPT !.pc = "returned", !.result = [kind |-> kind, value |-> value]]

Thrown(run, kind) ==
    [run EXCEPT !.pc = "thrown", !.result = [kind |-> kind, value |-> NoDatabase]]

\* await getDatabaseByName: the database or undefined, or the request fails;
\* with a database the region is compared and a warning logged
GetDatabaseByName ==
    /\ db.pc = "getDatabaseByName"
    /\ LET run == Requested("getDatabaseByName")
           database == db.remote.database
       IN \/ db' = Thrown(run, "error")
          \/ /\ database.defined
             /\ db' = [run EXCEPT
                        !.pc = "findLinkedDatabase",
                        !.database = database,
                        !.found = "database",
                        !.warned = ReplaceFirst(database.region, "aws-", "") # db.req.region]
          \/ /\ ~database.defined
             /\ db' = [run EXCEPT
                        !.pc = IF db.ask THEN "promptCreateDatabase" ELSE "createDatabase",
                        !.found = "none"]
    /\ DatabaseUnchanged

\* await findLinkedDatabase: a failure becomes a UserError; a linked database
\* is returned
FindLinkedDatabase ==
    /\ db.pc = "findLinkedDatabase"
    /\ LET run == Requested("findLinkedDatabase")
       IN \/ db' = Thrown(run, "UserError")
          \/ /\ db.remote.database.defined /\ db.remote.linked
             /\ db' = Returned([run EXCEPT !.linkedFound = "linked"],
                               "database", db.remote.database)
          \/ /\ ~(db.remote.database.defined /\ db.remote.linked)
             /\ db' = [run EXCEPT
                        !.pc = IF db.ask THEN "promptLinkDatabase"
                               ELSE "linkDatabaseToEnvironment",
                        !.linkedFound = "not linked"]
    /\ DatabaseUnchanged

\* the mutation of the prompt whose answer is not looked at
PromptLinkDatabaseIgnored ==
    /\ db.pc = "promptLinkDatabase"
    /\ \E linkDatabase \in BOOLEAN :
        db' = [db EXCEPT !.prompts = @ + 1,
                         !.declined = ~linkDatabase,
                         !.pc = "linkDatabaseToEnvironment"]
    /\ DatabaseUnchanged

\* if (ask): await inquirer.prompt, linkDatabase; declined returns undefined
PromptLinkDatabase ==
    /\ db.pc = "promptLinkDatabase"
    /\ \E linkDatabase \in BOOLEAN :
        db' = IF linkDatabase
              THEN [db EXCEPT !.prompts = @ + 1, !.pc = "linkDatabaseToEnvironment"]
              ELSE Returned([db EXCEPT !.prompts = @ + 1, !.declined = TRUE],
                            "undefined", NoDatabase)
    /\ DatabaseUnchanged

\* await linkDatabaseToEnvironment: a failure becomes a UserError; the
\* database found by name is returned
LinkDatabaseToEnvironment ==
    /\ db.pc = "linkDatabaseToEnvironment"
    /\ LET run == Requested("linkDatabaseToEnvironment")
       IN \/ db' = Thrown(run, "UserError")
          \/ /\ db.remote.database.defined
             /\ db' = Returned([run EXCEPT !.remote.linked = TRUE], "database", db.database)
    /\ DatabaseUnchanged

\* if (ask): await inquirer.prompt, createDatabase; declined returns undefined
PromptCreateDatabase ==
    /\ db.pc = "promptCreateDatabase"
    /\ \E createDatabase \in BOOLEAN :
        db' = IF createDatabase
              THEN [db EXCEPT !.prompts = @ + 1, !.pc = "createDatabase"]
              ELSE Returned([db EXCEPT !.prompts = @ + 1, !.declined = TRUE],
                            "undefined", NoDatabase)
    /\ DatabaseUnchanged

\* await createDatabase(createDatabaseReq, projectId, projectEnvId, true): a
\* failure becomes a UserError; the record of the new database is returned
CreateDatabase ==
    /\ db.pc = "createDatabase"
    /\ LET run == Requested("createDatabase")
           type == IF db.req.type = "" THEN "postgres-neon" ELSE db.req.type
           created == Database("id2", db.req.name, db.req.region, type)
       IN \/ db' = Thrown(run, "UserError")
          \/ /\ ~db.remote.database.defined
             /\ db' = Returned([run EXCEPT !.remote = [database |-> created, linked |-> TRUE]],
                               "database", created)
    /\ DatabaseUnchanged

\* another client creates, links, unlinks or deletes the database while the
\* run is suspended at an await
RemoteChange ==
    /\ db.pc \notin {"idle", "returned", "thrown"}
    /\ ~db.changed
    /\ \E remote \in RemoteStates \ {db.remote} :
        db' = [db EXCEPT !.remote = remote, !.changed = TRUE]
    /\ DatabaseUnchanged

InitDatabase ==
    /\ sdkGeneratorInput = NoInput
    /\ pc = "idle"
    /\ classIdx = 1
    /\ files = <<>>
    /\ rendered = <<>>
    /\ earlier = NoEarlier
    /\ elem = NoNode
    /\ typeOp = "none"
    /\ typeText = ""
    /\ calls = Idle
    /\ yaml = Idle
    /\ db \in {NewRun(fn, ask, req, remote) :
                fn \in Functions, ask \in BOOLEAN,
                req \in CreateDatabaseRequests, remote \in RemoteStates}
    /\ db.fn = "deploy" => ~db.ask

NextDatabase ==
    \/ GetDatabaseByName
    \/ FindLinkedDatabase
    \/ PromptLinkDatabase
    \/ LinkDatabaseToEnvironment
    \/ PromptCreateDatabase
    \/ CreateDatabase
    \/ RemoteChange

SpecDatabase == InitDatabase /\ [][NextDatabase]_vars

-----------------------------------------------------------------------------
(* What the claims speak of.                                               *)

Done == pc = "done"

Entries == 1..Len(sdkGeneratorInput.classesInfo)

EntryOf(c) == sdkGeneratorInput.classesInfo[c]

HasClass(c) ==
    EntryOf(c).program.hasBody /\ HasClassDefinition(EntryOf(c).program.body)

ClassOfEntry(c) == classDefinitionOf(EntryOf(c).program.body)

\* the iteration for entry c is over
Processed(c) == pc = "done" \/ (pc = "loop" /\ classIdx > c)

\* the methods whose effective exposure mode is the jsonrpc channel
ExposedMethods(c) ==
    SelectSeq(ClassOfEntry(c).methods,
              LAMBDA m : getMethodType(EntryOf(c).classConfiguration, m.name) = jsonrpc)

NamesOf(s) == [k \in 1..Len(s) |-> s[k].name]

RangeOf(s) == {s[k] : k \in 1..Len(s)}

\* the indices of the artifacts generated for entry c, and of its proxy files
ArtifactsOf(c) ==
    {k \in 1..Len(rendered) : rendered[k].kind # "remote" /\ rendered[k].entry = c}

ProxiesOf(c) == {k \in ArtifactsOf(c) : rendered[k].kind = "class"}

ProxyViews == {k \in 1..Len(rendered) : rendered[k].kind = "class"}

\* the artifacts generated for entry c, in output order
FilesFrom(c) ==
    LET idx == SelectSeq([k \in 1..Len(files) |-> k], LAMBDA k : k \in ArtifactsOf(c))
    IN [j \in 1..Len(idx) |-> files[idx[j]]]

\* the method of the class of entry c that a method view was built from
SourceMethod(c, name) == CHOOSE m \in RangeOf(ClassOfEntry(c).methods) : m.name = name

Sanitized(name) == IF name \in TYPESCRIPT_RESERVED_WORDS THEN name \o "_" ELSE name

-----------------------------------------------------------------------------
(* C1: for an input with one class that has N >= 1 methods exposed on the  *)
(* jsonrpc channel and M methods exposed on other channels, generateSdk    *)
(* emits exactly one proxy file for the class and the method list of that  *)
(* file is exactly the N exposed methods, in the order of                  *)
(* classDefinition.methods.                                                *)
C1_OneProxyWithTheExposedMethods ==
    (Done /\ Len(sdkGeneratorInput.classesInfo) = 1 /\ HasClass(1)
          /\ Len(ExposedMethods(1)) >= 1)
    => /\ Cardinality(ProxiesOf(1)) = 1
       /\ \A k \in ProxiesOf(1) :
            NamesOf(rendered[k].view.methods) = NamesOf(ExposedMethods(1))

(* C2: a method is included in the generated proxy if and only if its      *)
(* effective exposure mode (the method-level trigger when one is           *)
(* configured, the class-level trigger otherwise) is the jsonrpc channel,  *)
(* whatever the class-level trigger is.                                    *)
C2_IncludedIffEffectiveModeIsJsonrpc ==
    (Done /\ Len(sdkGeneratorInput.classesInfo) = 1 /\ HasClass(1))
    => \A m \in RangeOf(ClassOfEntry(1).methods) :
          (\E k \in ProxiesOf(1) : m.name \in RangeOf(NamesOf(rendered[k].view.methods)))
          <=> getMethodType(EntryOf(1).classConfiguration, m.name) = jsonrpc

(* C3: for a class in which no method qualifies for the jsonrpc channel no *)
(* proxy artifact is emitted, the call goes on to its end, and the         *)
(* returned list holds the transport stub.                                 *)
C3_NoProxyWithoutQualifyingMethod ==
    \A c \in Entries :
        (Processed(c) /\ HasClass(c) /\ Len(ExposedMethods(c)) = 0)
        => /\ ProxiesOf(c) = {}
           /\ Done => RemoteFile \in RangeOf(files)

C3_Witness ==
    /\ Done
    /\ \E c \in Entries :
        /\ HasClass(c)
        /\ Len(ClassOfEntry(c).methods) > 0
        /\ Len(ExposedMethods(c)) = 0

(* C4: whatever the input (no entry, only skipped entries, any number of   *)
(* generated classes), the returned list holds the transport stub          *)
(* remote.ts exactly once.                                                 *)
C4_RemoteExactlyOnce ==
    Done => Cardinality({k \in 1..Len(files) : files[k] = RemoteFile}) = 1

C4_Witness ==
    /\ Done
    /\ Len(sdkGeneratorInput.classesInfo) >= 2
    /\ Len(files) = 1

(* C5: an entry whose program.body is undefined or holds no                *)
(* ClassDefinition yields no artifact, and every other entry of the call   *)
(* yields the artifacts it yields on its own.                              *)
ArtifactsAlone(ci) == IF Outcome(ci) = "emit" THEN ClassOutput(ci).files ELSE <<>>

C5_SkippedEntryLeavesTheOthers ==
    Done => \A c \in Entries :
        Outcome(EntryOf(c)) \in {"undefined body", "no class definition"}
        => /\ ArtifactsOf(c) = {}
           /\ \A d \in Entries \ {c} : FilesFrom(d) = ArtifactsAlone(EntryOf(d))

C5_Witness ==
    /\ Done
    /\ \E c, d \in Entries :
        /\ c < d
        /\ Outcome(EntryOf(c)) \in {"undefined body", "no class definition"}
        /\ Outcome(EntryOf(d)) = "emit"
        /\ ArtifactsOf(d) # {}

(* C6: two calls of generateSdk with the same input return the same        *)
(* artifact list (paths, order, text), whatever calls were made on the     *)
(* SdkGenerator before or in between.                                      *)
C6_SameInputSameArtifacts ==
    (Done /\ earlier.set /\ earlier.input = sdkGeneratorInput) => files = earlier.files

C6_Witness ==
    /\ Done
    /\ earlier.set
    /\ earlier.input = sdkGeneratorInput
    /\ earlier.between
    /\ Len(files) > 1

(* C7: for a type declaration whose home path P is not the file of the     *)
(* class and which a qualifying method of the class refers to, the output  *)
(* holds (a) a type-declaration artifact for P with the rendered           *)
(* declaration and (b) a proxy file whose import list imports the name of  *)
(* the declaration from P.                                                 *)
DenotesClassFile(path, classPath) == path = classPath \/ path \o ".ts" = classPath

ReferencedBy(decl, m) ==
    \/ \E k \in 1..Len(m.params) : isExternalTypeUsed(decl, m.params[k].paramType)
    \/ m.returnType.type # "undefined" /\ isExternalTypeUsed(decl, m.returnType)

C7_ExternalDeclarationEmittedAndImported ==
    Done => \A c \in Entries :
        Outcome(EntryOf(c)) = "emit"
        => \A decl \in RangeOf(externalTypesOf(EntryOf(c).program.body)) :
            (/\ decl.path # ""
             /\ ~DenotesClassFile(decl.path, EntryOf(c).classConfiguration.path)
             /\ \E m \in RangeOf(ClassOfEntry(c).methods) :
                    Qualifies(EntryOf(c).classConfiguration, m) /\ ReferencedBy(decl, m))
            => /\ \E k \in ArtifactsOf(c) :
                    /\ rendered[k].kind = "model"
                    /\ files[k].path = decl.path \o ".ts"
                    /\ [type |-> generateExternalType(decl)]
                            \in RangeOf(rendered[k].view.externalTypes)
               /\ \E k \in ProxiesOf(c) :
                    \E imp \in RangeOf(rendered[k].view.imports) :
                        imp.path = decl.path /\ decl.name \in RangeOf(NamesOf(imp.models))

(* C8: for every qualifying method and every parameter position, the       *)
(* identifier declared in the signature is the identifier passed to the    *)
(* transport call: the source name followed by "_" when it is a reserved   *)
(* word, the source name unchanged otherwise.                              *)
C8_DeclaredNameIsForwardedName ==
    \A k \in ProxyViews :
        \A mv \in RangeOf(rendered[k].view.methods) :
            LET src == SourceMethod(rendered[k].entry, mv.name)
            IN /\ Len(mv.parameters) = Len(src.params)
               /\ Len(mv.sendParameters) = Len(src.params)
               /\ \A p \in 1..Len(src.params) :
                    /\ mv.sendParameters[p].name = Sanitized(src.params[p].name)
                    /\ \/ StartsWith(mv.parameters[p].name, mv.sendParameters[p].name \o ": ")
                       \/ StartsWith(mv.parameters[p].name, mv.sendParameters[p].name \o "?: ")

C8_Witness ==
    \E k \in ProxyViews :
        \E mv \in RangeOf(rendered[k].view.methods) :
            /\ Len(mv.sendParameters) = 2
            /\ mv.sendParameters[1].name = "class_"
            /\ mv.sendParameters[2].name = "name"
            /\ SourceMethod(rendered[k].entry, mv.name).params[1].name = "class"

(* C9: for every qualifying method the call expression passes the name     *)
(* "ClassName.methodName" first and then the sanitized parameters, one per *)
(* source parameter, in the order of the signature; nothing follows the    *)
(* name when the method has no parameter.                                  *)
C9_CallForwardsQualifiedNameAndParameters ==
    \A k \in ProxyViews :
        \A mv \in RangeOf(rendered[k].view.methods) :
            LET src == SourceMethod(rendered[k].entry, mv.name)
            IN CallArguments(mv) =
                "\"" \o ClassOfEntry(rendered[k].entry).name \o "." \o src.name \o "\""
                \o Concat([p \in 1..Len(src.params) |-> ", " \o Sanitized(src.params[p].name)])

C9_Witness ==
    \E k \in ProxyViews :
        /\ \E mv \in RangeOf(rendered[k].view.methods) : CallArguments(mv) = "\"User.list\""
        /\ \E mv \in RangeOf(rendered[k].view.methods) :
                CallArguments(mv) = "\"User.create\", name, email"

(* C10: getReturnType renders a VoidLiteral or absent return type as the   *)
(* empty string; otherwise it renders the annotation ": T", where T is the *)
(* mapped type itself for a PromiseType and Promise<mapped type> for every *)
(* other node: one Promise layer is added, and only to a node that is not  *)
(* a PromiseType.                                                          *)
C10_OnePromiseLayer ==
    typeOp = "getReturnType"
    => typeText =
        (IF elem.type \in {"undefined", "VoidLiteral"} THEN ""
         ELSE IF elem.type = "PromiseType"
              THEN ": Promise<" \o getParamType(elem.generic) \o ">"
              ELSE ": Promise<" \o getParamType(elem) \o ">")

C10_Witness ==
    /\ typeOp = "getReturnType"
    /\ elem.type = "PromiseType"
    /\ typeText = ": Promise<string>"

-----------------------------------------------------------------------------
(* C11: getParamType returns for every node, and for a node of a variant   *)
(* it has no branch for (NullLiteral, BigIntLiteral, ConstType, ...) it    *)
(* returns "any"; such a node inside an array is rendered as "any" there   *)
(* and the array is rendered around it.                                    *)
C11_UnsupportedVariantIsAny ==
    /\ (typeOp = "none" /\ elem.type # "undefined") => ENABLED GetParamType
    /\ typeOp = "getParamType"
       => /\ elem.type \notin ExplicitCases => typeText = "any"
          /\ (elem.type = "ArrayType" /\ elem.generic.type \notin ExplicitCases)
             => typeText = "Array<any>"

C11_Witness ==
    /\ typeOp = "getParamType"
    /\ elem.type = "NullLiteral"
    /\ typeText = "any"

(* C12: for every composite node (ArrayType, MapType, PromiseType,         *)
(* UnionType, TypeLiteral) the text getParamType returns holds the text it *)
(* returns for each component node: the element; the key and the value;    *)
(* the element; every variant; every property type.                        *)
ComponentsOf(e) ==
    IF e.type \in {"ArrayType", "PromiseType"} THEN {e.generic}
    ELSE IF e.type = "MapType" THEN {e.genericKey, e.genericValue}
    ELSE IF e.type = "UnionType" THEN RangeOf(e.params)
    ELSE IF e.type = "TypeLiteral" THEN {e.properties[k].type : k \in 1..Len(e.properties)}
    ELSE {}

C12_CompositeBuiltFromComponents ==
    typeOp = "getParamType"
    => \A c \in ComponentsOf(elem) : Includes(typeText, getParamType(c))

(* C13: getParamType maps a CustomNodeLiteral to its rawValue, unchanged,  *)
(* at top level and as the element of an array or a promise, as a variant  *)
(* of a union and as a property type of a type literal.                    *)
C13_CustomIsRawValue ==
    typeOp = "getParamType"
    => /\ elem.type = "CustomNodeLiteral" => typeText = elem.rawValue
       /\ (elem.type = "ArrayType" /\ elem.generic.type = "CustomNodeLiteral")
          => typeText = "Array<" \o elem.generic.rawValue \o ">"
       /\ (elem.type = "PromiseType" /\ elem.generic.type = "CustomNodeLiteral")
          => typeText = "Promise<" \o elem.generic.rawValue \o ">"
       /\ elem.type = "UnionType"
          => \A k \in 1..Len(elem.params) :
                elem.params[k].type = "CustomNodeLiteral"
                => /\ k = 1 => StartsWith(typeText, elem.params[k].rawValue)
                   /\ k > 1 => EndsWith(typeText, " | " \o elem.params[k].rawValue)
       /\ (elem.type = "TypeLiteral" /\ elem.properties[1].type.type = "CustomNodeLiteral")
          => EndsWith(typeText, ": " \o elem.properties[1].type.rawValue \o "}")

C13_Witness ==
    /\ typeOp = "getParamType"
    /\ elem.type = "UnionType"
    /\ typeText = "Item | Item"

(* C14: a parameter with a default value is declared with an initializer:  *)
(* the value between single quotes when the type of the default is         *)
(* StringLiteral, the bare value for every other type; a parameter without *)
(* a default value is declared without an initializer.                     *)
C14_DefaultValueInitializer ==
    \A k \in ProxyViews :
        \A mv \in RangeOf(rendered[k].view.methods) :
            LET src == SourceMethod(rendered[k].entry, mv.name)
            IN \A p \in 1..Len(src.params) :
                LET text == mv.parameters[p].name
                    e == src.params[p]
                IN /\ (e.hasDefaultValue /\ e.defaultValue.type = "StringLiteral")
                      => EndsWith(text, " = '" \o e.defaultValue.value \o "'")
                   /\ (e.hasDefaultValue /\ e.defaultValue.type # "StringLiteral")
                      => /\ EndsWith(text, " = " \o e.defaultValue.value)
                         /\ ~Includes(text, "'")
                   /\ ~e.hasDefaultValue => ~Includes(text, "=")

C14_Witness ==
    \E k \in ProxyViews :
        \E mv \in RangeOf(rendered[k].view.methods) :
            /\ Len(mv.parameters) = 2
            /\ mv.parameters[1].name = "name: string = 'x'"
            /\ mv.parameters[2].name = "type_: number = 1"

(* C15: the path of every proxy artifact is the class name with its first  *)
(* character, and only that one, in lower case, followed by ".sdk.ts"; the *)
(* path of every type-declaration artifact is the home path of the         *)
(* declarations rendered in it, followed by ".ts".                         *)
LowerFirst(name) == toLowerCase(CharAt(name, 1)) \o SubSeq(name, 2, Len(name))

C15_ArtifactPaths ==
    \A k \in 1..Len(rendered) :
        /\ rendered[k].kind = "class"
           => files[k].path = LowerFirst(ClassOfEntry(rendered[k].entry).name) \o ".sdk.ts"
        /\ rendered[k].kind = "model"
           => \A t \in RangeOf(rendered[k].view.externalTypes) :
                \E d \in RangeOf(externalTypesOf(EntryOf(rendered[k].entry).program.body)) :
                    /\ generateExternalType(d) = t.type
                    /\ files[k].path = d.path \o ".ts"

C15_Witness ==
    /\ Done
    /\ Len(files) = 3
    /\ files[1].path = "userAPI.sdk.ts"
    /\ files[2].path = "models/item.ts"

-----------------------------------------------------------------------------
(* Imports: the file an import entry of a generated file denotes, and the  *)
(* order of strings.                                                       *)

\* the segments of the directory of the generated file of that path
DirSegments(filePath) ==
    SubSeq(PathSegments(filePath), 1, Len(PathSegments(filePath)) - 1)

RECURSIVE Normalize(_, _)
Normalize(base, segs) ==
    IF Len(segs) = 0 THEN base
    ELSE IF segs[1] = ".." /\ Len(base) > 0
        THEN Normalize(SubSeq(base, 1, Len(base) - 1), Tail(segs))
    ELSE Normalize(Append(base, segs[1]), Tail(segs))

\* `from "./importPath"` written in the file filePath denotes the file of
\* home path homePath
ResolvesTo(filePath, importPath, homePath) ==
    Normalize(DirSegments(filePath), PathSegments(importPath)) = PathSegments(homePath)

\* the view rendered into files[k] imports name from the file of homePath
Imports(k, name, homePath) ==
    \E imp \in RangeOf(rendered[k].view.imports) :
        /\ ResolvesTo(files[k].path, imp.path, homePath)
        /\ name \in RangeOf(NamesOf(imp.models))

CharOrder == " ./0123456789ABCDEFGHIJKLMNOPQRSTUVWXYZ_abcdefghijklmnopqrstuvwxyz"

CharRank(c) ==
    IF \E k \in 1..Len(CharOrder) : CharAt(CharOrder, k) = c
    THEN CHOOSE k \in 1..Len(CharOrder) : CharAt(CharOrder, k) = c
    ELSE 0

RECURSIVE StrLess(_, _)
StrLess(a, b) ==
    IF Len(b) = 0 THEN FALSE
    ELSE IF Len(a) = 0 THEN TRUE
    ELSE IF CharAt(a, 1) # CharAt(b, 1) THEN CharRank(CharAt(a, 1)) < CharRank(CharAt(b, 1))
    ELSE StrLess(SubSeq(a, 2, Len(a)), SubSeq(b, 2, Len(b)))

StrictlyIncreasing(strs) == \A j \in 1..(Len(strs) - 1) : StrLess(strs[j], strs[j + 1])

\* the declarations of entry c, and those with a home file other than the
\* file of the class
DeclarationsOf(c) == RangeOf(externalTypesOf(EntryOf(c).program.body))

HasOwnFile(c, decl) ==
    decl.path # "" /\ ~DenotesClassFile(decl.path, EntryOf(c).classConfiguration.path)

Emitted(c) == Outcome(EntryOf(c)) = "emit"

(* C16: every declaration R with a home file H other than the file of the  *)
(* class that a qualifying method refers to in a parameter type or in its  *)
(* return type is imported by name from H in the proxy file of the class,  *)
(* also when a declaration of another type file refers to R as well.       *)
C16_DirectReferenceImportedByProxy ==
    Done => \A c \in Entries :
        Emitted(c)
        => \A k \in ProxiesOf(c) :
            \A R \in DeclarationsOf(c) :
                (/\ HasOwnFile(c, R)
                 /\ \E m \in RangeOf(ClassOfEntry(c).methods) :
                        Qualifies(EntryOf(c).classConfiguration, m) /\ ReferencedBy(R, m))
                => Imports(k, R.name, R.path)

(* C17: for every declaration D with a home file F of its own and every    *)
(* declaration R with a home file G of its own, G different from F, that   *)
(* the definition of D refers to, the type file generated for F imports    *)
(* the name of R from G; this holds for every such R, also when D refers   *)
(* to several declarations of the same file G.                             *)
C17_NestedReferenceImportedByTypeFile ==
    Done => \A c \in Entries :
        Emitted(c)
        => \A D \in DeclarationsOf(c) : \A R \in DeclarationsOf(c) :
            (/\ HasOwnFile(c, D)
             /\ HasOwnFile(c, R)
             /\ R.path # D.path
             /\ isExternalTypeUsed(R, D))
            => \E k \in ArtifactsOf(c) :
                /\ rendered[k].kind = "model"
                /\ files[k].path = D.path \o ".ts"
                /\ Imports(k, R.name, R.path)

(* C18: in the import list of every generated file no provider file has    *)
(* two entries and no entry names a symbol twice; the entries are in the   *)
(* order of their paths and the symbols of an entry in the order of their  *)
(* names, whatever the order of the declarations in Program.body.          *)
C18_ImportsUniqueAndOrdered ==
    \A k \in 1..Len(rendered) :
        rendered[k].kind # "remote"
        => LET imports == rendered[k].view.imports
           IN /\ \A i, j \in 1..Len(imports) : i # j => imports[i].path # imports[j].path
              /\ StrictlyIncreasing([i \in 1..Len(imports) |-> imports[i].path])
              /\ \A i \in 1..Len(imports) : StrictlyIncreasing(NamesOf(imports[i].models))

(* C19: in the list one call returns no two artifacts have the same path;  *)
(* every declaration with a home file of its own is rendered exactly once, *)
(* in the one type-declaration artifact of its home path; and every        *)
(* type-declaration artifact holds a declaration.                          *)
RenderingsOf(d) ==
    UNION {{<<k, t>> : t \in {u \in 1..Len(rendered[k].view.externalTypes) :
                                rendered[k].view.externalTypes[u].type
                                    = generateExternalType(d)}}
            : k \in {j \in 1..Len(files) : /\ rendered[j].kind = "model"
                                           /\ files[j].path = d.path \o ".ts"}}

C19_OneTypeFilePerHomePath ==
    Done =>
        /\ \A i, j \in 1..Len(files) : i # j => files[i].path # files[j].path
        /\ \A k \in 1..Len(rendered) :
            rendered[k].kind = "model" => Len(rendered[k].view.externalTypes) > 0
        /\ \A c \in Entries :
            Emitted(c)
            => \A d \in DeclarationsOf(c) :
                HasOwnFile(c, d)
                => Cardinality(RenderingsOf(d)) = 1

(* C20: generateSdk terminates: every step of a call takes it nearer to    *)
(* its return and a call that has not returned can take a step.  When two  *)
(* declarations of different type files refer to each other, each of the   *)
(* two files is emitted once, holds its declaration and imports the name   *)
(* of the other declaration from the other file.                           *)
Rank ==
    IF pc = "call" THEN 0
    ELSE IF pc = "loop" THEN classIdx
    ELSE Len(sdkGeneratorInput.classesInfo) + 2

\* the guards of the actions of Next: the call, an iteration of the loop in
\* one of its four outcomes, the push of remote.ts
CanStep ==
    \/ pc = "call"
    \/ /\ InLoop
       /\ Outcome(EntryOf(classIdx))
            \in {"undefined body", "no class definition", "no export", "emit"}
    \/ pc = "loop" /\ classIdx > Len(sdkGeneratorInput.classesInfo)

Cyclic(c, D, R) ==
    /\ HasOwnFile(c, D)
    /\ HasOwnFile(c, R)
    /\ R.path # D.path
    /\ isExternalTypeUsed(R, D)
    /\ isExternalTypeUsed(D, R)

TypeFilesOf(c, D) ==
    {k \in ArtifactsOf(c) : rendered[k].kind = "model" /\ files[k].path = D.path \o ".ts"}

-----------------------------------------------------------------------------
(* C21: generateSdk invocations that run side by side share no output, no  *)
(* import map and no view: under every interleaving each invocation        *)
(* returns the artifact list it returns when it runs alone.                *)
RECURSIVE ArtifactsFrom(_, _)
ArtifactsFrom(classesInfo, k) ==
    IF k > Len(classesInfo) THEN <<>>
    ELSE ArtifactsAlone(classesInfo[k]) \o ArtifactsFrom(classesInfo, k + 1)

\* the list generateSdk returns for input when nothing else runs
RunAlone(input) == Append(ArtifactsFrom(input.classesInfo, 1), RemoteFile)

C21_InterleavedInvocationsReturnTheirOwnArtifacts ==
    \A i \in Invocations : calls[i].pc = "done" => calls[i].files = RunAlone(calls[i].input)

C21_Witness ==
    /\ \A i \in Invocations : calls[i].pc = "done" /\ calls[i].overlapped
    /\ Len(calls[1].files) > 1
    /\ Len(calls[2].files) > 1
    /\ calls[1].files # calls[2].files

(* C22: read with the cache enabled never returns a stale configuration:   *)
(* whenever read returns the cached configuration, the file still holds    *)
(* the content the cached configuration was made from or written as.       *)
C22_CacheServedOnlyForTheUnchangedFile ==
    yaml.result.kind = "cached" => yaml.result.config = yaml.result.fileWas

(* C23: the view of a class is built from that class alone: the list       *)
(* generateSdk returns is, in the order of classesInfo, the files each     *)
(* class yields alone (its proxy file, then its type-declaration files),   *)
(* followed by the one transport stub.                                     *)
C23_OutputIsConcatenationOfPerClassArtifacts ==
    Done => /\ files = RunAlone(sdkGeneratorInput)
            /\ \A c \in Entries : FilesFrom(c) = ArtifactsAlone(EntryOf(c))

C23_Witness ==
    /\ Done
    /\ Len(sdkGeneratorInput.classesInfo) = 2
    /\ Emitted(1) /\ Emitted(2)
    /\ ClassOfEntry(1).name # ClassOfEntry(2).name
    /\ Len(FilesFrom(1)) = 2
    /\ Len(FilesFrom(2)) = 2
    /\ Len(files) = 5

(* C24: in every comma-joined list of a rendered view (the parameters and  *)
(* the forwarded arguments of a method, the symbols of an import entry of  *)
(* a proxy file or of a type file) that is not empty, the final item and   *)
(* no other carries the mark `last`, and the list is rendered with ", "    *)
(* between its items and nowhere else; also for an import entry that       *)
(* symbols were appended to.                                               *)
MarkedLast(items) == {k \in 1..Len(items) : "last" \in DOMAIN items[k] /\ items[k].last}

WellMarked(items, parentLast) ==
    /\ Len(items) > 0 => MarkedLast(items) = {Len(items)}
    /\ RenderList(items, parentLast) = Join(NamesOf(items), ", ")

C24_LastItemAloneIsMarked ==
    \A k \in 1..Len(rendered) :
        rendered[k].kind # "remote"
        => /\ \A imp \in RangeOf(rendered[k].view.imports) : WellMarked(imp.models, imp.last)
           /\ rendered[k].kind = "class"
              => \A mv \in RangeOf(rendered[k].view.methods) :
                    /\ WellMarked(mv.parameters, FALSE)
                    /\ WellMarked(mv.sendParameters, FALSE)

C24_Witness ==
    \E k \in ProxyViews :
        /\ \E imp \in RangeOf(rendered[k].view.imports) :
                /\ Len(imp.models) = 2
                /\ RenderList(imp.models, imp.last) = "A, B"
        /\ \E mv \in RangeOf(rendered[k].view.methods) : Len(mv.parameters) = 1
        /\ \E j \in 1..Len(rendered) :
                rendered[j].kind = "model" /\ Len(rendered[j].view.externalTypes) = 2

(* C25: a top-level type declaration is rendered inline in the proxy file  *)
(* of the class if and only if it has no home path or its home path        *)
(* denotes the file of the class; a declaration whose home path denotes    *)
(* another file is rendered in the type file of that home path and not     *)
(* inline.  (Declarations are told apart by name, so the statement is      *)
(* about the declarations whose name is theirs alone in the body.)         *)
NamedOnce(c, decl) == \A other \in DeclarationsOf(c) : other.name = decl.name => other = decl

Inline(c, decl) ==
    \E k \in ProxiesOf(c) :
        [type |-> generateExternalType(decl)] \in RangeOf(rendered[k].view.externalTypes)

InTypeFile(c, decl) ==
    \E k \in ArtifactsOf(c) :
        /\ rendered[k].kind = "model"
        /\ files[k].path = decl.path \o ".ts"
        /\ [type |-> generateExternalType(decl)] \in RangeOf(rendered[k].view.externalTypes)

C25_InlineIffLocalToTheClassFile ==
    Done => \A c \in Entries :
        Emitted(c) => \A decl \in DeclarationsOf(c) :
            NamedOnce(c, decl)
            => /\ Inline(c, decl) <=> ~HasOwnFile(c, decl)
               /\ HasOwnFile(c, decl) => InTypeFile(c, decl)

(* C26: every import entry of every generated file resolves inside the     *)
(* output of the call: its path, resolved from the directory of the        *)
(* importing file, is the path without extension of a type file of the     *)
(* call, that type file declares every symbol the entry lists, and no file *)
(* imports from itself.                                                    *)
WithoutExtension(filePath) == SubSeq(filePath, 1, Len(filePath) - 3)

ImportTarget(k, imp) == Normalize(DirSegments(files[k].path), PathSegments(imp.path))

Declares(j, name) ==
    \E decl \in DeclarationsOf(rendered[j].entry) :
        /\ decl.name = name
        /\ [type |-> generateExternalType(decl)] \in RangeOf(rendered[j].view.externalTypes)

C26_ImportsResolveInsideTheOutput ==
    Done => \A k \in 1..Len(rendered) :
        rendered[k].kind # "remote"
        => \A imp \in RangeOf(rendered[k].view.imports) :
            /\ \E j \in 1..Len(rendered) :
                    /\ rendered[j].kind = "model"
                    /\ PathSegments(WithoutExtension(files[j].path)) = ImportTarget(k, imp)
                    /\ \A m \in RangeOf(imp.models) : Declares(j, m.name)
            /\ ImportTarget(k, imp) # PathSegments(WithoutExtension(files[k].path))

(* C27: sanitizing the parameter names of a method introduces no           *)
(* collision: when the parameter names of the source method are pairwise   *)
(* distinct, the names the proxy method declares and forwards are pairwise *)
(* distinct too, also for the parameters class and class_.                 *)
PairwiseDistinct(strs) == \A j, k \in 1..Len(strs) : j # k => strs[j] # strs[k]

C27_SanitizingKeepsNamesDistinct ==
    \A c \in Entries : \A k \in ProxiesOf(c) :
        \A mv \in RangeOf(rendered[k].view.methods) :
            PairwiseDistinct(NamesOf(SourceMethod(c, mv.name).params))
            => PairwiseDistinct(NamesOf(mv.sendParameters))

(* C28: a class none of whose methods is exposed on the jsonrpc channel    *)
(* contributes no artifact: no proxy file and none of the type files       *)
(* computed from its declarations with a home file, and every other class  *)
(* of the call contributes the artifacts it yields on its own.             *)
C28_SilentClassContributesNothing ==
    Done => \A c \in Entries :
        (HasClass(c) /\ Len(ExposedMethods(c)) = 0)
        => /\ ArtifactsOf(c) = {}
           /\ \A d \in Entries \ {c} : FilesFrom(d) = ArtifactsAlone(EntryOf(d))
           /\ Len(files) = 1 + Cardinality({k \in 1..Len(files) :
                                               \E d \in Entries \ {c} : k \in ArtifactsOf(d)})

C28_Witness ==
    /\ Done
    /\ Len(sdkGeneratorInput.classesInfo) = 2
    /\ \E c \in Entries :
        /\ HasClass(c)
        /\ Len(ClassOfEntry(c).methods) > 0
        /\ Len(ExposedMethods(c)) = 0
        /\ \E decl \in DeclarationsOf(c) : HasOwnFile(c, decl)
        /\ Len(ClassOutput(EntryOf(c)).files) = 2
        /\ \E d \in Entries \ {c} : Emitted(d) /\ Len(FilesFrom(d)) = 2
    /\ Len(files) = 3

(* C29: generateExternalType renders every case of an Enum: the rendered   *)
(* declaration lists each case once, in the order of the input, by its     *)
(* name, followed by its value when it has one (quoted for a string), for  *)
(* a case of whatever value kind.                                          *)
CaseListing(c) ==
    IF ~c.hasValue THEN c.name
    ELSE IF c.type = "StringLiteral" THEN c.name \o " = \"" \o c.value \o "\""
    ELSE c.name \o " = " \o c.value

EnumListing(decl) ==
    "enum " \o decl.name \o " {"
    \o Join([k \in 1..Len(decl.cases) |-> CaseListing(decl.cases[k])], ", ") \o "}"

C29_EveryEnumCaseIsRendered ==
    \A c \in Entries : \A k \in ProxiesOf(c) :
        \A decl \in DeclarationsOf(c) :
            (decl.type = "Enum" /\ decl.path = "")
            => [type |-> EnumListing(decl)] \in RangeOf(rendered[k].view.externalTypes)

(* C30: in every run of getOrCreateDatabase at most one mutating request   *)
(* is issued: createDatabase only when getDatabaseByName found no database *)
(* of the name, linkDatabaseToEnvironment only when it found one that      *)
(* findLinkedDatabase did not find linked, none of the two when the        *)
(* database is linked or when the user declines the prompt, in which case  *)
(* the result is undefined; without ask no prompt is shown.                *)
MutatingRequests ==
    SelectSeq(db.requests, LAMBDA r : r \in {"createDatabase", "linkDatabaseToEnvironment"})

C30_AtMostOneMutatingRequest ==
    /\ Len(MutatingRequests) <= 1
    /\ "createDatabase" \in RangeOf(db.requests) => db.found = "none"
    /\ "linkDatabaseToEnvironment" \in RangeOf(db.requests)
        => db.found = "database" /\ db.linkedFound = "not linked"
    /\ (db.linkedFound = "linked" \/ db.declined) => MutatingRequests = <<>>
    /\ db.declined => db.ask /\ db.pc = "returned" /\ db.result.kind = "undefined"
    /\ ~db.ask => db.prompts = 0

C30_Witness ==
    /\ db.pc = "returned"
    /\ db.ask
    /\ db.prompts = 1
    /\ db.requests = <<"getDatabaseByName", "findLinkedDatabase", "linkDatabaseToEnvironment">>
    /\ db.result.kind = "database"
    /\ db.result.value = db.database

====
